---- MODULE Spec2Model ----
(***************************************************************************)
(* MANTRA: glacier surface classification and transient snowline altitude. *)
(*                                                                         *)
(* The model follows one (glacier, scene) unit through the code of         *)
(* core.js and of the per-scene callback of proc_parallel.js (the same     *)
(* code, up to the output, is the onChange handler of evaluate.js).        *)
(*                                                                         *)
(* A raster is a function on pixel ids; a masked pixel is a pixel that is  *)
(* not in the raster's domain.  Every raster entry stands for a block of   *)
(* cells[p] raster cells that carry the same values (a run-length          *)
(* encoding of the raster), so that areas, percentiles and moments can be  *)
(* computed exactly over rasters of more than fifty cells.                 *)
(*                                                                         *)
(* Decimals of the source are exact rationals <<numerator, denominator>>.  *)
(***************************************************************************)
EXTENDS Integers, Sequences, FiniteSets, TLC

VARIABLES
    collection,         \* LS_collection_glacier: per day, the scenes of the glacier
    day,                \* days of range that day_list has visited
    sceneList,          \* the days with a scene, as day_list collects them
    current,            \* index in sceneList of the unit being evaluated, or 0
    units,              \* per index of sceneList: the state of the unit
    TSLs,               \* the results of the batch, in the order of arrival
    pc,                 \* position of the unit in the processing chain
    properties,         \* properties of ls_scene: RGIId, LS_ID, LS_DATE
    SENSOR,             \* ls_scene.get('SENSOR')
    image,              \* per pixel: band ratios, thermal band T, illumination IL1
    alos_DEM,           \* per pixel: elevation (band AVE)
    cells,              \* per pixel: number of raster cells the entry stands for
    glacier_area,       \* area of the glacier polygon, in cells
    mask,               \* unmasked pixels of the scene
    cover,              \* the classified rasters
    area,               \* the areas of the vector outlines
    class_coverage,     \* TCC_area / glacier_area * 100
    CC_total_port,      \* CC_area / TCC_area * 100
    snow_cover_outline, \* properties of the snow outline after the DEM statistics
    TSLrange,           \* snowline band: status, pixels, area, cloud percentages
    result_dataset,     \* the feature the batch tool emits
    panel,              \* the values the evaluate tool displays
    layers,             \* evaluate tool: the names of Map.layers(), in order
    last_scene_displayed \* evaluate tool: the scene selected last, or null

\* The state of the batch over the units of a glacier.
batchVars == <<collection, day, sceneList, current, units, TSLs>>

\* The inputs of the glacier, shared by its units.
glacierVars == <<alos_DEM, cells, glacier_area>>

\* The state of the unit being evaluated.
unitVars == <<pc, properties, SENSOR, image, mask, cover, area, class_coverage,
              CC_total_port, snow_cover_outline, TSLrange, result_dataset,
              panel>>

\* The map of the evaluate tool.
mapVars == <<layers, last_scene_displayed>>

vars == <<batchVars, glacierVars, unitVars, mapVars>>

(***************************************************************************)
(* Numbers                                                                 *)
(***************************************************************************)

\* A decimal literal with two decimals: Dec(-60) is -0.6.
Dec(x) == <<x, 100>>

\* a < b for rationals with positive denominators.
RatLt(a, b) == a[1] * b[2] < b[1] * a[2]

\* a > b (ee.Image.gt / ee.Number.gt).
RatGt(a, b) == RatLt(b, a)

\* The JavaScript string "NaN" that create_nan_dict stores.
StrNaN == [nan |-> TRUE, kind |-> "string"]

\* The JavaScript number NaN.
JsNaN == [nan |-> TRUE, kind |-> "number"]

\* A number num / den, den > 0.
Num(n, d) == [nan |-> FALSE, kind |-> "number", num |-> n, den |-> d, sq |-> 0]

\* A number sqrt(sq) / den (a standard deviation).
Root(v, d) == [nan |-> FALSE, kind |-> "number", num |-> 0, den |-> d, sq |-> v]

\* ee.Number.divide: a / b, and 0 for division by 0.
divide(a, b) == IF b = 0 THEN Num(0, 1) ELSE Num(a, b)

\* ee.Number.multiply by an integer.
multiply(x, k) == IF x.nan THEN x ELSE [x EXCEPT !.num = @ * k]

\* a.divide(b).multiply(100)
Percent(a, b) == multiply(divide(a, b), 100)

RECURSIVE SumF(_, _)
\* Sum of f[x] over the finite set S.
SumF(f, S) ==
    IF S = {} THEN 0
    ELSE LET x == CHOOSE y \in S : TRUE IN f[x] + SumF(f, S \ {x})

(***************************************************************************)
(* Properties of images and features: a dictionary is a function on the    *)
(* keys that are set; get() of a key that is not set is null, and a null   *)
(* value sets nothing.                                                     *)
(***************************************************************************)

\* {k: dict.get(k), ...} for the keys k: the keys that are set in dict.
Select(dict, keys) == [k \in keys \cap DOMAIN dict |-> dict[k]]

\* The properties the three classifiers set on their raster:
\* set('RGIId', image.get('RGIId')).set('LS_DATE', image.get('LS_DATE')).
identification_properties(props) == Select(props, {"RGIId", "LS_DATE"})

\* The dictionary boolraster_to_outline, obtain_DEM_stats and
\* create_nan_dict copy from their argument.
outline_properties(props) ==
    Select(props, {"RGIId", "LS_ID", "LS_DATE", "GLACIER_AREA"})

(***************************************************************************)
(* core.js: threshold definitions                                          *)
(*          NDSI min, NDSI max, Ratio1 min, Ratio1 max, Ratio2 min, Ratio2 max *)
(***************************************************************************)

th_snow_l1 == <<Dec(-9900), Dec(-60), Dec(-90), Dec(-15), Dec(-15), Dec(9900)>>
th_snow_l2 == <<Dec(-9900), Dec(-60), Dec(-90), Dec(-15), Dec(-15), Dec(9900)>>
th_snow_l3 == <<Dec(-9900), Dec(-60), Dec(-90), Dec(-15), Dec(-15), Dec(9900)>>
th_snow_l4 == <<Dec(-9900), Dec(-60), Dec(-90), Dec(-15), Dec(-15), Dec(9900)>>
th_snow_l5 == <<Dec(-9900), Dec(-60), Dec(-90), Dec(-15), Dec(-15), Dec(9900)>>
th_snow_l7 == <<Dec(-9900), Dec(-60), Dec(-150), Dec(0), Dec(-15), Dec(9900)>>
\* Mutation of th_snow_l8: Ratio1 max -0.5 instead of -0.15.
th_snow_l8_ratio1_max == <<Dec(-9900), Dec(-60), Dec(-70), Dec(-50), Dec(-15), Dec(9900)>>

th_snow_l8 == <<Dec(-9900), Dec(-60), Dec(-70), Dec(-15), Dec(-15), Dec(9900)>>

th_unknown == <<Dec(9900), Dec(9900), Dec(9900), Dec(9900), Dec(9900), Dec(9900)>>

th_ice_l1 == <<Dec(-9900), Dec(-45), Dec(-80), Dec(30), Dec(-60), Dec(-15)>>
th_ice_l2 == <<Dec(-9900), Dec(-45), Dec(-80), Dec(30), Dec(-60), Dec(-15)>>
th_ice_l3 == <<Dec(-9900), Dec(-45), Dec(-80), Dec(30), Dec(-60), Dec(-15)>>
th_ice_l4 == <<Dec(-9900), Dec(-45), Dec(-80), Dec(30), Dec(-60), Dec(-15)>>
th_ice_l5 == <<Dec(-9900), Dec(-45), Dec(-80), Dec(30), Dec(-60), Dec(-15)>>
th_ice_l7 == <<Dec(-9900), Dec(-50), Dec(-40), Dec(55), Dec(-70), Dec(-15)>>
\* Mutation of th_ice_l8: Ratio2 max -0.1 instead of -0.15.
th_ice_l8_ratio2_max == <<Dec(-9900), Dec(-60), Dec(-40), Dec(55), Dec(-70), Dec(-10)>>

th_ice_l8 == <<Dec(-9900), Dec(-60), Dec(-40), Dec(55), Dec(-70), Dec(-15)>>

th_debris_l1 == <<Dec(-20), Dec(9900), Dec(10), Dec(100), Dec(-80), Dec(-20)>>
th_debris_l2 == <<Dec(-20), Dec(9900), Dec(10), Dec(100), Dec(-80), Dec(-20)>>
th_debris_l3 == <<Dec(-20), Dec(9900), Dec(10), Dec(100), Dec(-80), Dec(-20)>>
th_debris_l4 == <<Dec(-20), Dec(9900), Dec(10), Dec(100), Dec(-80), Dec(-20)>>
th_debris_l5 == <<Dec(-20), Dec(9900), Dec(10), Dec(100), Dec(-80), Dec(-20)>>
\* Mutation of th_debris_l7: NDSI min -99 instead of -0.1.
th_debris_l7_ndsi_min == <<Dec(-9900), Dec(9900), Dec(0), Dec(60), Dec(-80), Dec(-20)>>

th_debris_l7 == <<Dec(-10), Dec(9900), Dec(0), Dec(60), Dec(-80), Dec(-20)>>
\* Mutation of th_debris_l8: NDSI min -99 instead of -0.2.
th_debris_l8_ndsi_min == <<Dec(-9900), Dec(9900), Dec(0), Dec(60), Dec(-80), Dec(-30)>>

th_debris_l8 == <<Dec(-20), Dec(9900), Dec(0), Dec(60), Dec(-80), Dec(-30)>>

(***************************************************************************)
(* core.js: get_band_ratios                                                *)
(* Reflectances G, NIR, SWIR1 and the temperature T [K] are in hundredths. *)
(***************************************************************************)

\* Mutation of Image_divide: not-a-number for a zero divisor.  <<0, 0>>
\* compares false with every bound, as IEEE NaN does.
Image_divide_ieee(n, d) ==
    IF d = 0 THEN <<0, 0>>
    ELSE IF d < 0 THEN <<-n, -d>>
    ELSE <<n, d>>

\* ee.Image.divide: the rational n / d with a positive denominator, and 0
\* for division by 0.
Image_divide(n, d) ==
    IF d = 0 THEN <<0, 1>>
    ELSE IF d < 0 THEN <<-n, -d>>
    ELSE <<n, d>>

\* Minimum temperature threshold [K], in hundredths.
T_threshold == 26315

\* Mutation of bt_corr: the mask is applied to the wrong term, so that a
\* temperature above the threshold is replaced and one below it is kept.
bt_corr_mask_swapped(T) ==
    LET T_mask       == IF T < T_threshold THEN 1 ELSE 0
        bt_no_freeze == (1 - T_mask) * T_threshold + T * T_mask
    IN  bt_no_freeze - 23000

\* bt_corr times 7000: T_mask * T_threshold + T * (not T_mask), minus 230
\* (the division by 70 is carried in the common denominator).
bt_corr(T) ==
    LET T_mask       == IF T < T_threshold THEN 1 ELSE 0
        bt_no_freeze == T_mask * T_threshold + T * (1 - T_mask)
    IN  bt_no_freeze - 23000

\* get_band_ratios: <<NDSI, Ratio1, Ratio2>> of a pixel with bands b.
get_band_ratios(b) ==
    LET green == 70 * b.G
        nir   == 70 * b.NIR
        bt    == bt_corr(b.T)
        ndsi    == Image_divide(b.SWIR1 - b.G, b.SWIR1 + b.G)
        ratio_1 == Image_divide(bt - (green + nir), bt + (green + nir))
        ratio_2 == Image_divide(green - bt, green + bt)
    IN  <<ndsi, ratio_1, ratio_2>>

(***************************************************************************)
(* core.js: the cascaded sensor dispatch of the three classifiers          *)
(***************************************************************************)

debris_thresholds(sensor) ==
    IF sensor = "LANDSAT_8" THEN th_debris_l8
    ELSE IF sensor = "LANDSAT_7" THEN th_debris_l7
    ELSE IF sensor = "LANDSAT_5" THEN th_debris_l5
    ELSE IF sensor = "LANDSAT_4" THEN th_debris_l4
    ELSE IF sensor = "LANDSAT_3" THEN th_debris_l3
    ELSE IF sensor = "LANDSAT_2" THEN th_debris_l2
    ELSE IF sensor = "LANDSAT_1" THEN th_debris_l1
    ELSE th_unknown

ice_thresholds(sensor) ==
    IF sensor = "LANDSAT_8" THEN th_ice_l8
    ELSE IF sensor = "LANDSAT_7" THEN th_ice_l7
    ELSE IF sensor = "LANDSAT_5" THEN th_ice_l5
    ELSE IF sensor = "LANDSAT_4" THEN th_ice_l4
    ELSE IF sensor = "LANDSAT_3" THEN th_ice_l3
    ELSE IF sensor = "LANDSAT_2" THEN th_ice_l2
    ELSE IF sensor = "LANDSAT_1" THEN th_ice_l1
    ELSE th_unknown

\* Mutation of snow_thresholds: the row of LANDSAT_8 as the fallback.
snow_thresholds_fallback_l8(sensor) ==
    IF sensor = "LANDSAT_7" THEN th_snow_l7
    ELSE IF sensor = "LANDSAT_5" THEN th_snow_l5
    ELSE IF sensor = "LANDSAT_4" THEN th_snow_l4
    ELSE IF sensor = "LANDSAT_3" THEN th_snow_l3
    ELSE IF sensor = "LANDSAT_2" THEN th_snow_l2
    ELSE IF sensor = "LANDSAT_1" THEN th_snow_l1
    ELSE th_snow_l8

snow_thresholds(sensor) ==
    IF sensor = "LANDSAT_8" THEN th_snow_l8
    ELSE IF sensor = "LANDSAT_7" THEN th_snow_l7
    ELSE IF sensor = "LANDSAT_5" THEN th_snow_l5
    ELSE IF sensor = "LANDSAT_4" THEN th_snow_l4
    ELSE IF sensor = "LANDSAT_3" THEN th_snow_l3
    ELSE IF sensor = "LANDSAT_2" THEN th_snow_l2
    ELSE IF sensor = "LANDSAT_1" THEN th_snow_l1
    ELSE th_unknown

\* ee.Image.and of 0/1 images.
And(a, b) == IF a # 0 /\ b # 0 THEN 1 ELSE 0

\* ee.Image.gt: 1 where a > b, else 0.
gt(a, b) == IF RatGt(a, b) THEN 1 ELSE 0

\* ee.Image.lt: 1 where a < b, else 0.
lt(a, b) == IF RatLt(a, b) THEN 1 ELSE 0

\* The value of the debris raster at a pixel with band ratios px.
debris_identification(sensor, px) ==
    LET thresholds == debris_thresholds(sensor)
    IN  And(And(And(And(And(gt(px.ndsi, thresholds[1]),
                            lt(px.ndsi, thresholds[2])),
                        gt(px.ratio_1, thresholds[3])),
                    lt(px.ratio_1, thresholds[4])),
                gt(px.ratio_2, thresholds[5])),
            lt(px.ratio_2, thresholds[6]))

\* The value of the ice raster at a pixel with band ratios px.
ice_identification(sensor, px) ==
    LET thresholds == ice_thresholds(sensor)
    IN  And(And(And(And(And(gt(px.ndsi, thresholds[1]),
                            lt(px.ndsi, thresholds[2])),
                        gt(px.ratio_1, thresholds[3])),
                    lt(px.ratio_1, thresholds[4])),
                gt(px.ratio_2, thresholds[5])),
            lt(px.ratio_2, thresholds[6]))

\* Mutation of snow_identification: Ratio1 <= Ratio1 max (lte for lt).
snow_identification_lte(sensor, px) ==
    LET thresholds == snow_thresholds(sensor)
    IN  And(And(And(And(And(gt(px.ndsi, thresholds[1]),
                            lt(px.ndsi, thresholds[2])),
                        gt(px.ratio_1, thresholds[3])),
                    1 - gt(px.ratio_1, thresholds[4])),
                gt(px.ratio_2, thresholds[5])),
            lt(px.ratio_2, thresholds[6]))

\* The value of the snow raster at a pixel with band ratios px.
snow_identification(sensor, px) ==
    LET thresholds == snow_thresholds(sensor)
    IN  And(And(And(And(And(gt(px.ndsi, thresholds[1]),
                            lt(px.ndsi, thresholds[2])),
                        gt(px.ratio_1, thresholds[3])),
                    lt(px.ratio_1, thresholds[4])),
                gt(px.ratio_2, thresholds[5])),
            lt(px.ratio_2, thresholds[6]))

\* boolraster_to_outline: the pixels where the raster is unmasked and equals 1.
boolraster_to_outline(boolraster) ==
    {p \in DOMAIN boolraster : boolraster[p] = 1}

\* Feature.area(0.1).divide(1000 * 1000) of an outline made of the pixels S.
outline_area(S) == SumF(cells, S)

(***************************************************************************)
(* core.js: calculate_illumination                                         *)
(***************************************************************************)

\* il_threshold = 0.35, in hundredths.
il_threshold == 35

\* Mutation of IL3: a pixel exactly at the threshold is kept (lt for lte).
IL3_keep_threshold(IL1) ==
    LET IL2 == IF IL1 < il_threshold THEN 0 ELSE IL1
    IN  IF IL2 >= il_threshold THEN 1 ELSE IL2

\* IL3: 0 where the illumination is at most the threshold, 1 above it.
IL3(IL1) ==
    LET IL2 == IF IL1 <= il_threshold THEN 0 ELSE IL1
    IN  IF IL2 > il_threshold THEN 1 ELSE IL2

\* The pixels calculate_illumination leaves unmasked.
calculate_illumination(img) ==
    {p \in DOMAIN img : IL3(img[p].IL) # 0 /\ img[p].T > 0}

(***************************************************************************)
(* proc_parallel.js / evaluate.js: configuration                           *)
(***************************************************************************)

\* Percentile of altitude range to obtain TSL from.
tsl_median_binsize == 2

\* Minimum cloudfree portion [%] of glacier surface to conduct TSL analysis.
cf_threshold == 20

(***************************************************************************)
(* Zonal reducers over the DEM cells of a set of pixels S                  *)
(***************************************************************************)

\* Number of DEM cells of S with elevation at most v.
CellsUpTo(S, v) == SumF(cells, {p \in S : alos_DEM[p] <= v})

\* ee.Reducer.percentile([q]): the lowest elevation of S that has at least
\* q percent of the cells of S at or below it.
percentile(S, q) ==
    LET values == {alos_DEM[p] : p \in S}
        enough(v) == 100 * CellsUpTo(S, v) >= q * SumF(cells, S)
    IN  CHOOSE v \in values :
            enough(v) /\ \A u \in values : u < v => ~enough(u)

\* ee.Reducer.min()
reduce_min(S) == CHOOSE v \in {alos_DEM[p] : p \in S} : \A q \in S : v <= alos_DEM[q]

\* ee.Reducer.max()
reduce_max(S) == CHOOSE v \in {alos_DEM[p] : p \in S} : \A q \in S : v >= alos_DEM[q]

\* ee.Reducer.mean(): sum of elevations over number of cells.
reduce_mean(S) ==
    Num(SumF([p \in S |-> cells[p] * alos_DEM[p]], S), SumF(cells, S))

\* ee.Reducer.stdDev(): sqrt(n * sum of squares - square of sum) / n.
reduce_stdDev(S) ==
    LET n  == SumF(cells, S)
        s1 == SumF([p \in S |-> cells[p] * alos_DEM[p]], S)
        s2 == SumF([p \in S |-> cells[p] * alos_DEM[p] * alos_DEM[p]], S)
    IN  Root(n * s2 - s1 * s1, n)

(***************************************************************************)
(* proc_parallel.js: local functions                                       *)
(***************************************************************************)

\* Mutation of masked_DEM: the whole outline, without the percentile mask.
masked_DEM_whole_outline(vector_outline) == vector_outline

\* Mutation of masked_DEM: the cells at or above the percentile (gte for lte).
masked_DEM_gte(vector_outline) ==
    LET lowest_percentiles == percentile(vector_outline, tsl_median_binsize)
    IN  {p \in vector_outline : alos_DEM[p] >= lowest_percentiles}

\* The DEM cells the snowline statistics are taken over.
masked_DEM(vector_outline) ==
    LET lowest_percentiles == percentile(vector_outline, tsl_median_binsize)
    IN  {p \in vector_outline : alos_DEM[p] <= lowest_percentiles}

\* obtain_DEM_stats: statistics of the lowest percentiles of the outline.
obtain_DEM_stats(vector_outline) ==
    LET low == masked_DEM(vector_outline)
    IN  [geometry     |-> vector_outline,
         STATS_MEAN   |-> reduce_mean(low),
         STATS_MEDIAN |-> Num(percentile(low, 50), 1),
         STATS_MIN    |-> Num(reduce_min(low), 1),
         STATS_MAX    |-> Num(reduce_max(low), 1),
         STATS_STDEV  |-> reduce_stdDev(low)]

\* Mutation of create_nan_dict: the number 0 instead of the string "NaN".
create_nan_dict_zero(vector_outline) ==
    [geometry       |-> vector_outline,
     CLOUDFREE_AREA |-> cf_threshold,
     STATS_MEAN     |-> Num(0, 1),
     STATS_MEDIAN   |-> Num(0, 1),
     STATS_MIN      |-> Num(0, 1),
     STATS_MAX      |-> Num(0, 1),
     STATS_STDEV    |-> Num(0, 1)]

\* create_nan_dict: empty data container for non-results.
create_nan_dict(vector_outline) ==
    [geometry       |-> vector_outline,
     CLOUDFREE_AREA |-> cf_threshold,
     STATS_MEAN     |-> StrNaN,
     STATS_MEDIAN   |-> StrNaN,
     STATS_MIN      |-> StrNaN,
     STATS_MAX      |-> StrNaN,
     STATS_STDEV    |-> StrNaN]

\* ee.Algorithms.IsEqual('NaN', x)
IsEqualNaN(x) == x.nan /\ x.kind = "string"

\* ee.Number.gt(0)
gt0(x) == IF x.sq > 0 \/ x.num > 0 THEN 1 ELSE 0

\* Greatest common divisor of two positive integers; the comparisons below
\* are made over the least common denominator of mean and stdev.
RECURSIVE GCD(_, _)
GCD(a, b) == IF b = 0 THEN a ELSE GCD(b, a % b)

\* alos_glacier.lte(TSL_range_max): elevation e <= mean + stdev.
lte_TSL_range_max(e, mean, stdev) ==
    LET g == GCD(mean.den, stdev.den)
        d == (e * mean.den - mean.num) * (stdev.den \div g)
        m == mean.den \div g
    IN  d <= 0 \/ d * d <= m * m * stdev.sq

\* Mutation of gt_TSL_range_min: e >= mean - stdev (gte for gt).
gte_TSL_range_min(e, mean, stdev) ==
    LET g == GCD(mean.den, stdev.den)
        d == (mean.num - e * mean.den) * (stdev.den \div g)
        m == mean.den \div g
    IN  d <= 0 \/ d * d <= m * m * stdev.sq

\* alos_glacier.gt(TSL_range_min): elevation e > mean - stdev.
gt_TSL_range_min(e, mean, stdev) ==
    LET g == GCD(mean.den, stdev.den)
        d == (mean.num - e * mean.den) * (stdev.den \div g)
        m == mean.den \div g
    IN  d < 0 \/ d * d < m * m * stdev.sq

\* get_DEM_TSLrange_outline: the glacier DEM pixels in the snowline band.
get_DEM_TSLrange_outline(outline) ==
    {p \in DOMAIN alos_DEM :
        /\ lte_TSL_range_max(alos_DEM[p], outline.STATS_MEAN, outline.STATS_STDEV)
        /\ gt_TSL_range_min(alos_DEM[p], outline.STATS_MEAN, outline.STATS_STDEV)}

\* Mutation of DEM_TSLrange_status: SC_mean.gt(0) is not required.
DEM_TSLrange_status_stdev_only(SC_mean, SC_stdev) ==
    IF IsEqualNaN(SC_mean) THEN 0
    ELSE IF gt0(SC_stdev) # 0 THEN 1
    ELSE 0

\* The status property of DEM_TSLrange_outline.
DEM_TSLrange_status(SC_mean, SC_stdev) ==
    IF IsEqualNaN(SC_mean) THEN 0
    ELSE IF And(gt0(SC_stdev), gt0(SC_mean)) # 0 THEN 1
    ELSE 0

(***************************************************************************)
(* proc_parallel.js: the per-scene callback of glacier_results             *)
(* (evaluate.js: the onChange handler of imageSelect)                      *)
(***************************************************************************)

\* Image.updateMask(image.neq(0)): keep the pixels with a non-zero value.
updateMask_neq0(raster) ==
    [p \in {q \in DOMAIN raster : raster[q] # 0} |-> raster[p]]

\* Mutation of classify: detected_areas without the snow raster.
classify_detected_without_snow(props, sensor, img, msk) ==
    LET snow_cover      == [p \in msk |-> snow_identification(sensor, img[p])]
        ice_cover       == [p \in msk |-> ice_identification(sensor, img[p])]
        debris_cover    == [p \in msk |-> debris_identification(sensor, img[p])]
        debris_plus_ice == [p \in msk |-> debris_cover[p] + ice_cover[p]]
        detected_areas  == debris_plus_ice
        area_true       == [p \in msk |-> IF detected_areas[p] = 0 THEN 1 ELSE 0]
        total           == [p \in msk |-> detected_areas[p] + area_true[p]]
        class_properties ==
            [RGIId |-> props.RGIId, GLACIER_AREA |-> glacier_area]
                @@ identification_properties(props)
    IN  [snow_cover           |-> snow_cover,
         ice_cover            |-> ice_cover,
         debris_cover         |-> debris_cover,
         debris_plus_ice      |-> debris_plus_ice,
         detected_areas       |-> detected_areas,
         total_class_coverage |-> updateMask_neq0(total),
         cloud_cover          |-> updateMask_neq0(area_true),
         class_properties     |-> class_properties]

\* Mutation of classify: total_class_coverage without the cloud/unknown class.
classify_total_without_cloud(props, sensor, img, msk) ==
    LET snow_cover      == [p \in msk |-> snow_identification(sensor, img[p])]
        ice_cover       == [p \in msk |-> ice_identification(sensor, img[p])]
        debris_cover    == [p \in msk |-> debris_identification(sensor, img[p])]
        debris_plus_ice == [p \in msk |-> debris_cover[p] + ice_cover[p]]
        detected_areas  == [p \in msk |-> debris_plus_ice[p] + snow_cover[p]]
        area_true       == [p \in msk |-> IF detected_areas[p] = 0 THEN 1 ELSE 0]
        class_properties ==
            [RGIId |-> props.RGIId, GLACIER_AREA |-> glacier_area]
                @@ identification_properties(props)
    IN  [snow_cover           |-> snow_cover,
         ice_cover            |-> ice_cover,
         debris_cover         |-> debris_cover,
         debris_plus_ice      |-> debris_plus_ice,
         detected_areas       |-> detected_areas,
         total_class_coverage |-> updateMask_neq0(detected_areas),
         cloud_cover          |-> updateMask_neq0(area_true),
         class_properties     |-> class_properties]

\* The classified rasters of a scene with properties props and unmasked
\* pixels msk.
classify(props, sensor, img, msk) ==
    LET snow_cover      == [p \in msk |-> snow_identification(sensor, img[p])]
        ice_cover       == [p \in msk |-> ice_identification(sensor, img[p])]
        debris_cover    == [p \in msk |-> debris_identification(sensor, img[p])]
        debris_plus_ice == [p \in msk |-> debris_cover[p] + ice_cover[p]]
        detected_areas  == [p \in msk |-> debris_plus_ice[p] + snow_cover[p]]
        area_true       == [p \in msk |-> IF detected_areas[p] = 0 THEN 1 ELSE 0]
        total           == [p \in msk |-> detected_areas[p] + area_true[p]]
        class_properties ==
            [RGIId |-> props.RGIId, GLACIER_AREA |-> glacier_area]
                @@ identification_properties(props)
    IN  [snow_cover           |-> snow_cover,
         ice_cover            |-> ice_cover,
         debris_cover         |-> debris_cover,
         debris_plus_ice      |-> debris_plus_ice,
         detected_areas       |-> detected_areas,
         total_class_coverage |-> updateMask_neq0(total),
         cloud_cover          |-> updateMask_neq0(area_true),
         class_properties     |-> class_properties]

\* Mutation of measure: DIC_area from the outline of the debris raster.
measure_DIC_from_debris(cov) ==
    [IC_area  |-> outline_area(boolraster_to_outline(cov.ice_cover)),
     DC_area  |-> outline_area(boolraster_to_outline(cov.debris_cover)),
     CC_area  |-> outline_area(boolraster_to_outline(cov.cloud_cover)),
     SC_area  |-> outline_area(boolraster_to_outline(cov.snow_cover)),
     DIC_area |-> outline_area(boolraster_to_outline(cov.debris_cover)),
     TCC_area |-> outline_area(boolraster_to_outline(cov.total_class_coverage))]

\* The areas of the vector outlines of the classified rasters.
measure(cov) ==
    [IC_area  |-> outline_area(boolraster_to_outline(cov.ice_cover)),
     DC_area  |-> outline_area(boolraster_to_outline(cov.debris_cover)),
     CC_area  |-> outline_area(boolraster_to_outline(cov.cloud_cover)),
     SC_area  |-> outline_area(boolraster_to_outline(cov.snow_cover)),
     DIC_area |-> outline_area(boolraster_to_outline(cov.debris_plus_ice)),
     TCC_area |-> outline_area(boolraster_to_outline(cov.total_class_coverage))]

\* evaluate.js: TCC_area_ctrl = IC_area.add(DC_area).add(SC_area).add(CC_area)
TCC_area_ctrl(ar) == ar.IC_area + ar.DC_area + ar.SC_area + ar.CC_area

\* snow_cover_outline after the DEM statistics: computed or the NaN container.
snow_stats(cov, ar) ==
    LET vector_outline == outline_properties(cov.class_properties)
    IN  outline_properties(vector_outline) @@
            IF ar.SC_area > 0
            THEN obtain_DEM_stats(boolraster_to_outline(cov.snow_cover))
            ELSE create_nan_dict(boolraster_to_outline(cov.snow_cover))

\* Mutation of TSL_range: the number NaN instead of 100 without a band.
TSL_range_default_nan(sco, cov) ==
    LET status  == DEM_TSLrange_status(sco.STATS_MEAN, sco.STATS_STDEV)
        outline == IF status = 1 THEN get_DEM_TSLrange_outline(sco) ELSE {}
        DEM_TSLrange_area == outline_area(outline)
        cc_TSLrange_area  ==
            outline_area(outline \cap boolraster_to_outline(cov.cloud_cover))
        tcc_TSLrange_area ==
            outline_area(outline \cap boolraster_to_outline(cov.total_class_coverage))
    IN  [status               |-> status,
         outline              |-> outline,
         DEM_TSLrange_area    |-> IF status = 1 THEN Num(DEM_TSLrange_area, 1) ELSE JsNaN,
         cc_TSLrange_percent  |-> IF status = 1
                                  THEN Percent(cc_TSLrange_area, DEM_TSLrange_area)
                                  ELSE JsNaN,
         tcc_TSLrange_percent |-> IF status = 1
                                  THEN Percent(tcc_TSLrange_area, DEM_TSLrange_area)
                                  ELSE JsNaN]

\* Mutation of TSL_range: the cloud and class outlines are not intersected
\* with the band outline.
TSL_range_not_intersected(sco, cov) ==
    LET status  == DEM_TSLrange_status(sco.STATS_MEAN, sco.STATS_STDEV)
        outline == IF status = 1 THEN get_DEM_TSLrange_outline(sco) ELSE {}
        DEM_TSLrange_area == outline_area(outline)
        cc_TSLrange_area  ==
            outline_area(boolraster_to_outline(cov.cloud_cover))
        tcc_TSLrange_area ==
            outline_area(boolraster_to_outline(cov.total_class_coverage))
    IN  [status               |-> status,
         outline              |-> outline,
         DEM_TSLrange_area    |-> IF status = 1 THEN Num(DEM_TSLrange_area, 1) ELSE JsNaN,
         cc_TSLrange_percent  |-> IF status = 1
                                  THEN Percent(cc_TSLrange_area, DEM_TSLrange_area)
                                  ELSE Num(100, 1),
         tcc_TSLrange_percent |-> IF status = 1
                                  THEN Percent(tcc_TSLrange_area, DEM_TSLrange_area)
                                  ELSE Num(100, 1)]

\* The snowline band and the portions of cloud and classified area in it.
TSL_range(sco, cov) ==
    LET status  == DEM_TSLrange_status(sco.STATS_MEAN, sco.STATS_STDEV)
        outline == IF status = 1 THEN get_DEM_TSLrange_outline(sco) ELSE {}
        DEM_TSLrange_area == outline_area(outline)
        cc_TSLrange_area  ==
            outline_area(outline \cap boolraster_to_outline(cov.cloud_cover))
        tcc_TSLrange_area ==
            outline_area(outline \cap boolraster_to_outline(cov.total_class_coverage))
    IN  [status               |-> status,
         outline              |-> outline,
         DEM_TSLrange_area    |-> IF status = 1 THEN Num(DEM_TSLrange_area, 1) ELSE JsNaN,
         cc_TSLrange_percent  |-> IF status = 1
                                  THEN Percent(cc_TSLrange_area, DEM_TSLrange_area)
                                  ELSE Num(100, 1),
         tcc_TSLrange_percent |-> IF status = 1
                                  THEN Percent(tcc_TSLrange_area, DEM_TSLrange_area)
                                  ELSE Num(100, 1)]

\* evaluate.js: output_class_coverage, in hundredths ("100.00" above 100,
\* Math.round(x * 100) / 100 otherwise).
output_class_coverage(cc) ==
    IF cc.num > 100 * cc.den
    THEN Dec(10000)
    ELSE Dec((200 * cc.num + cc.den) \div (2 * cc.den))

\* A value that has not been computed yet.
None == [nan |-> FALSE, kind |-> "none"]

(***************************************************************************)
(* evaluate.js: the layers of the map.  The name 'LS ' + value of a layer  *)
(* is the pair <<"LS ", value>>; scenes are numbered from 1, and null      *)
(* names no scene.                                                         *)
(***************************************************************************)

\* var last_scene_displayed = null
null == 0

\* removeLayer: the first layer of that name is removed, if there is one.
removeLayer(lys, name) ==
    LET names == {i \in DOMAIN lys : lys[i] = name}
        index == CHOOSE i \in names : \A j \in names : i <= j
    IN  IF names # {}
        THEN [i \in 1 .. Len(lys) - 1 |-> IF i < index THEN lys[i] ELSE lys[i + 1]]
        ELSE lys

\* Mutation of cleanup_map: the layer 'CC TSL Range' is not removed.
cleanup_map_without_CC_TSL_Range(lys, scene_id) ==
    LET l1 == removeLayer(lys, <<"LS ", scene_id>>)
        l2 == removeLayer(l1, <<"Snow cover raster ", scene_id>>)
        l3 == removeLayer(l2, <<"Ice cover raster ", scene_id>>)
        l4 == removeLayer(l3, <<"Cloud cover raster ", scene_id>>)
        l5 == removeLayer(l4, <<"Debris cover raster ", scene_id>>)
    IN  removeLayer(l5, <<"Masked DEM ", scene_id>>)

\* cleanup_map: the seven layers named after scene_id are removed.
cleanup_map(lys, scene_id) ==
    LET l1 == removeLayer(lys, <<"LS ", scene_id>>)
        l2 == removeLayer(l1, <<"Snow cover raster ", scene_id>>)
        l3 == removeLayer(l2, <<"Ice cover raster ", scene_id>>)
        l4 == removeLayer(l3, <<"Cloud cover raster ", scene_id>>)
        l5 == removeLayer(l4, <<"Debris cover raster ", scene_id>>)
        l6 == removeLayer(l5, <<"CC TSL Range ", scene_id>>)
    IN  removeLayer(l6, <<"Masked DEM ", scene_id>>)

\* The Map.addLayer calls of the handler, in their order: the glacier
\* outline, the seven layers named after the scene, and the classification
\* mosaic, which is given no name and gets the default name of the map,
\* 'Layer ' and its number.
add_layers(lys, value) ==
    LET named == lys \o <<<<"RGI outline">>,
                          <<"LS ", value>>,
                          <<"Snow cover raster ", value>>,
                          <<"Ice cover raster ", value>>,
                          <<"Cloud cover raster ", value>>,
                          <<"Debris cover raster ", value>>,
                          <<"CC TSL Range ", value>>,
                          <<"Masked DEM ", value>>>>
    IN  Append(named, <<"Layer ", Len(named) + 1>>)

(***************************************************************************)
(* Actions                                                                 *)
(***************************************************************************)

\* LS_collection_glacier.map(core.calculate_illumination)
CalculateIllumination ==
    /\ pc = "scene"
    /\ mask' = calculate_illumination(image)
    /\ pc' = "illuminated"
    /\ UNCHANGED <<batchVars, glacierVars, mapVars, properties, SENSOR, image, cover,
                   area, class_coverage, CC_total_port, snow_cover_outline,
                   TSLrange, result_dataset, panel>>

\* Mutation of ClassifySurface: the classifiers read the unmasked scene.
ClassifySurface_unmasked ==
    /\ pc = "illuminated"
    /\ LET cov == classify(properties, SENSOR, image, DOMAIN image)
           ar  == measure(cov)
       IN  /\ cover' = cov
           /\ area' = ar
           /\ class_coverage' = Percent(ar.TCC_area, glacier_area)
           /\ CC_total_port' = Percent(ar.CC_area, ar.TCC_area)
    /\ pc' = "classified"
    /\ UNCHANGED <<batchVars, glacierVars, mapVars, properties, SENSOR, image, mask,
                   snow_cover_outline, TSLrange, result_dataset, panel>>

\* Band-ratio classification, cloud/unknown class, outlines and areas.
ClassifySurface ==
    /\ pc = "illuminated"
    /\ LET cov == classify(properties, SENSOR, image, mask)
           ar  == measure(cov)
       IN  /\ cover' = cov
           /\ area' = ar
           /\ class_coverage' = Percent(ar.TCC_area, glacier_area)
           /\ CC_total_port' = Percent(ar.CC_area, ar.TCC_area)
    /\ pc' = "classified"
    /\ UNCHANGED <<batchVars, glacierVars, mapVars, properties, SENSOR, image, mask,
                   snow_cover_outline, TSLrange, result_dataset, panel>>

\* DEM statistics of the snow outline and the snowline band.
SnowlineStatistics ==
    /\ pc = "classified"
    /\ LET sco == snow_stats(cover, area)
       IN  /\ snow_cover_outline' = sco
           /\ TSLrange' = TSL_range(sco, cover)
    /\ pc' = "analysed"
    /\ UNCHANGED <<batchVars, glacierVars, mapVars, properties, SENSOR, image, mask,
                   cover, area, class_coverage, CC_total_port,
                   result_dataset, panel>>

\* proc_parallel.js: the result feature of the unit.
EmitResult ==
    /\ pc = "analysed"
    /\ result_dataset' =
          ("LS_ID: " :> properties.LS_ID) @@
          [RGI_ID              |-> properties.RGIId,
           LS_DATE             |-> properties.LS_DATE,
           LS_SAT              |-> SENSOR,
           glacier_area        |-> glacier_area,
           DIC_area            |-> area.DIC_area,
           SC_stdev            |-> snow_cover_outline.STATS_STDEV,
           SC_mean             |-> snow_cover_outline.STATS_MEAN,
           SC_median           |-> snow_cover_outline.STATS_MEDIAN,
           SC_min              |-> snow_cover_outline.STATS_MIN,
           SC_max              |-> snow_cover_outline.STATS_MAX,
           SC_area             |-> area.SC_area,
           IC_area             |-> area.IC_area,
           DC_area             |-> area.DC_area,
           CC_area             |-> area.CC_area,
           CC_total_port       |-> CC_total_port,
           cc_TSLrange_percent |-> TSLrange.cc_TSLrange_percent,
           class_coverage      |-> class_coverage]
    /\ pc' = "emitted"
    /\ UNCHANGED <<batchVars, glacierVars, mapVars, properties, SENSOR, image, mask,
                   cover, area, class_coverage, CC_total_port,
                   snow_cover_outline, TSLrange, panel>>

\* evaluate.js: the layers and the info panel of the selected scene.
UpdatePanel ==
    /\ pc = "analysed"
    /\ layers' = add_layers(layers, last_scene_displayed)
    /\ panel' = [output_class_coverage |-> output_class_coverage(class_coverage)]
    /\ pc' = "displayed"
    /\ UNCHANGED <<batchVars, glacierVars, last_scene_displayed, properties,
                   SENSOR, image, mask, cover, area, class_coverage,
                   CC_total_port, snow_cover_outline, TSLrange, result_dataset>>

Next ==
    \/ CalculateIllumination
    \/ ClassifySurface
    \/ SnowlineStatistics
    \/ EmitResult
    \/ UpdatePanel

(***************************************************************************)
(* Scenes                                                                  *)
(***************************************************************************)

\* A pixel with band ratios a, b, c (hundredths), thermal band t and
\* illumination il (hundredths).
Pixel(a, b, c, t, il) ==
    [ndsi |-> Dec(a), ratio_1 |-> Dec(b), ratio_2 |-> Dec(c), T |-> t, IL |-> il]

\* RGI ID of the glacier to process.
rgi_id == "RGI60-13.53885"

\* A unit before processing: a scene clipped to the glacier, nothing masked.
SceneInit(pixels, sensors, pixelKinds, elevations, blockSizes, glacierAreas) ==
    /\ collection = <<>>
    /\ day = 0
    /\ sceneList = <<>>
    /\ current = 0
    /\ units = <<>>
    /\ TSLs = <<>>
    /\ layers = <<>>
    /\ last_scene_displayed = 1
    /\ pc = "scene"
    /\ properties = [RGIId |-> rgi_id, LS_ID |-> "LC08_1", LS_DATE |-> 1]
    /\ SENSOR \in sensors
    /\ image \in [pixels -> pixelKinds]
    /\ alos_DEM \in [pixels -> elevations]
    /\ cells \in [pixels -> blockSizes]
    /\ glacier_area \in glacierAreas
    /\ mask = pixels
    /\ cover = None
    /\ area = None
    /\ class_coverage = None
    /\ CC_total_port = None
    /\ snow_cover_outline = None
    /\ TSLrange = None
    /\ result_dataset = None
    /\ panel = None

\* Number of pixels of a scene.
NPix == 2

\* Largest glacier area, in cells.
MaxGlacierArea == 6

\* Sensors of the scenes: three with a threshold row, one without.
SceneSensors == {"LANDSAT_8", "LANDSAT_7", "LANDSAT_5", "LANDSAT_9"}

\* Pixels of the scenes: snow, ice, debris and unclassified band ratios,
\* a shadowed pixel and a pixel with a non-positive thermal band.
ScenePixels ==
    {Pixel(-80, -20, 10, 270, 36), Pixel(-80, 0, -40, 270, 36),
     Pixel(0, 30, -50, 270, 36), Pixel(0, 0, 0, 270, 36),
     Pixel(-80, -20, 10, 270, 35), Pixel(-80, -20, 10, 0, 36)}

Init ==
    SceneInit(1 .. NPix, SceneSensors, ScenePixels, {1, 2}, {1},
              1 .. MaxGlacierArea)

Spec == Init /\ [][Next]_vars

(***************************************************************************)
(* Single pixels over every sensor and every band-ratio triple             *)
(***************************************************************************)

\* The sensors with a threshold row, and two identifiers without one.
Sensors ==
    {"LANDSAT_1", "LANDSAT_2", "LANDSAT_3", "LANDSAT_4", "LANDSAT_5",
     "LANDSAT_7", "LANDSAT_8", "LANDSAT_6", "LANDSAT_9"}

\* Every threshold row of the three classes.
ThresholdRows ==
    {th_snow_l1, th_snow_l2, th_snow_l3, th_snow_l4, th_snow_l5, th_snow_l7,
     th_snow_l8, th_ice_l1, th_ice_l2, th_ice_l3, th_ice_l4, th_ice_l5,
     th_ice_l7, th_ice_l8, th_debris_l1, th_debris_l2, th_debris_l3,
     th_debris_l4, th_debris_l5, th_debris_l7, th_debris_l8, th_unknown}

\* The bounds (hundredths) found in columns i and j of the threshold rows
\* and the values just below and just above each bound: one value on every
\* bound and at least one in every interval between two bounds.
GridValues(i, j) ==
    LET bounds == {row[i][1] : row \in ThresholdRows}
                  \cup {row[j][1] : row \in ThresholdRows}
    IN  bounds \cup {b + 1 : b \in bounds} \cup {b - 1 : b \in bounds}

\* A lit and a shadowed pixel for every triple of grid values.
GridPixels ==
    {Pixel(a, b, c, 270, il) :
        a \in GridValues(1, 2), b \in GridValues(3, 4), c \in GridValues(5, 6),
        il \in {35, 36}}

InitClassify == SceneInit({1}, Sensors, GridPixels, {1}, {1}, {1})

SpecClassify == InitClassify /\ [][Next]_vars

(***************************************************************************)
(* Scenes of blocks of cells, for the snowline statistics                  *)
(***************************************************************************)

\* Number of blocks of a scene.
NBlocks == 3

\* Number of cells of a large block.
MaxCells == 49

\* Elevations of the DEM, below, at and above sea level.
Elevations == {-1, 0, 1, 2}

\* Lit pixels with snow and with unclassified band ratios.
BlockPixels == {Pixel(-80, -20, 10, 270, 36), Pixel(0, 0, 0, 270, 36)}

InitStats ==
    SceneInit(1 .. NBlocks, {"LANDSAT_8"}, BlockPixels, Elevations,
              {1, MaxCells}, {MaxCells})

SpecStats == InitStats /\ [][Next]_vars

(***************************************************************************)
(* Scenes of one block more, a large cloud/unknown block, above sea level,  *)
(* for the cloud in the snowline band: a band needs snow at two elevations *)
(* below the percentile elevation, that is a snow block with less than     *)
(* tsl_median_binsize percent of the snow cells, and so three snow blocks  *)
(* next to the cloud.                                                      *)
(***************************************************************************)

InitBand ==
    /\ SceneInit(1 .. NBlocks + 1, {"LANDSAT_8"}, BlockPixels, {1, 2, 3},
                 {1, MaxCells}, {MaxCells})
    /\ image[NBlocks + 1] = Pixel(0, 0, 0, 270, 36)
    /\ cells[NBlocks + 1] = MaxCells

SpecBand == InitBand /\ [][Next]_vars

(***************************************************************************)
(* Scenes of blocks of three and of seven cells, for the class areas       *)
(***************************************************************************)

InitAreas ==
    SceneInit(1 .. NPix, SceneSensors, ScenePixels, {1, 2}, {3, 7}, {10})

SpecAreas == InitAreas /\ [][Next]_vars

(***************************************************************************)
(* Single pixels given by their bands                                      *)
(***************************************************************************)

\* A lit pixel with bands b and the band ratios get_band_ratios derives.
BandPixel(b) ==
    LET band_ratios == get_band_ratios(b)
    IN  [ndsi |-> band_ratios[1], ratio_1 |-> band_ratios[2],
         ratio_2 |-> band_ratios[3], T |-> b.T, IL |-> 36,
         G |-> b.G, NIR |-> b.NIR, SWIR1 |-> b.SWIR1]

\* Band values and temperatures (hundredths) of the pixels: temperatures
\* below, at and above T_threshold; with T = 265 K, bt_corr is 0.5, and each
\* of the three denominators can be zero.
BandSets ==
    [G : {-50, 0, 20, 30}, NIR : {-70, -50, 0, 40},
     SWIR1 : {-20, 0, 5, 20, 30}, T : {25000, T_threshold, 26500}]

InitBands ==
    SceneInit({1}, Sensors, {BandPixel(b) : b \in BandSets}, {1}, {1}, {1})

SpecBands == InitBands /\ [][Next]_vars

(***************************************************************************)
(* proc_parallel.js: the batch over the days of the search range.  The     *)
(* units of a glacier are evaluated in any order and interleaved: the unit *)
(* being evaluated can be set aside and another one started or taken up.   *)
(***************************************************************************)

\* Number of days of the search range (start to finish).
NDays == 3

\* range: the days of the search range.
range == 1 .. NDays

\* LS_collection_glacier.filterDate(date, date.advance(1, 'day'))
filterDate(date) == collection[date]

\* Mutation of day_list: one entry for every scene of the day.
day_list_per_scene(date, newlist) ==
    LET filtered == filterDate(date)
    IN  newlist \o [i \in 1 .. Len(filtered) |-> filtered[i].DATE_ACQUIRED]

\* day_list: the day is added when it has a scene.
day_list(date, newlist) ==
    LET filtered == filterDate(date)
        LS_DATE  == filtered[1].DATE_ACQUIRED
    IN  IF Len(filtered) # 0 THEN Append(newlist, LS_DATE) ELSE newlist

\* filtered.mosaic(): every pixel from the last scene that covers it; the
\* scenes of the model cover every pixel of the glacier.
mosaic(filtered) == filtered[Len(filtered)].image

\* The illumination IL1 of the pixels of img under the sun position of the
\* scene first: calculate_illumination derives it from the DEM and from the
\* SUN_AZIMUTH and SUN_ELEVATION the image carries.
illuminate(img, first) ==
    [p \in DOMAIN img |-> [img[p] EXCEPT !.IL = first.illumination[p]]]

\* Mutation of get_day_images: the properties of the last scene of the day,
\* the one on top of the mosaic.
get_day_images_last(d) ==
    LET filtered == filterDate(d)
        last     == filtered[Len(filtered)]
        ls_id    == last.LANDSAT_PRODUCT_ID
        sensor   == last.SPACECRAFT_ID
        sun_azi  == last.SUN_AZIMUTH
        sun_ele  == last.SUN_ELEVATION
        pixels   == IF Len(filtered) > 1 THEN mosaic(filtered)
                    ELSE filtered[1].image
    IN  [image      |-> illuminate(pixels, last),
         properties |-> [RGIId |-> rgi_id, LS_ID |-> ls_id, LS_DATE |-> d,
                         SUN_AZIMUTH |-> sun_azi, SUN_ELEVATION |-> sun_ele],
         SENSOR     |-> sensor]

\* get_day_images: the scene of the day, or the mosaic of its scenes, with
\* the properties of the first scene.
get_day_images(d) ==
    LET filtered == filterDate(d)
        ls_id    == filtered[1].LANDSAT_PRODUCT_ID
        sensor   == filtered[1].SPACECRAFT_ID
        sun_azi  == filtered[1].SUN_AZIMUTH
        sun_ele  == filtered[1].SUN_ELEVATION
        pixels   == IF Len(filtered) > 1 THEN mosaic(filtered)
                    ELSE filtered[1].image
    IN  [image      |-> illuminate(pixels, filtered[1]),
         properties |-> [RGIId |-> rgi_id, LS_ID |-> ls_id, LS_DATE |-> d,
                         SUN_AZIMUTH |-> sun_azi, SUN_ELEVATION |-> sun_ele],
         SENSOR     |-> sensor]

\* A unit that has not been started.
Waiting == [status |-> "waiting", saved |-> <<>>]

\* The unit variables while no unit is being evaluated.
Idle ==
    /\ pc' = "idle"
    /\ properties' = <<>>
    /\ SENSOR' = ""
    /\ image' = <<>>
    /\ mask' = {}
    /\ cover' = None
    /\ area' = None
    /\ class_coverage' = None
    /\ CC_total_port' = None
    /\ snow_cover_outline' = None
    /\ TSLrange' = None
    /\ result_dataset' = None
    /\ panel' = None

\* range.iterate(day_list, ee.List([])): the next day of the range.
DayList ==
    /\ day < NDays
    /\ day' = day + 1
    /\ sceneList' = day_list(day + 1, sceneList)
    /\ units' = [i \in 1 .. Len(sceneList') |-> Waiting]
    /\ UNCHANGED <<collection, current, TSLs, glacierVars, mapVars, unitVars>>

\* sceneList.map(get_day_images): the evaluation of unit i begins.
StartUnit(i) ==
    /\ day = NDays
    /\ current = 0
    /\ units[i].status = "waiting"
    /\ LET ls_scene == get_day_images(sceneList[i])
       IN  /\ image' = ls_scene.image
           /\ properties' = ls_scene.properties
           /\ SENSOR' = ls_scene.SENSOR
           /\ mask' = DOMAIN ls_scene.image
    /\ pc' = "scene"
    /\ current' = i
    /\ units' = [units EXCEPT ![i].status = "running"]
    /\ UNCHANGED <<collection, day, sceneList, TSLs, glacierVars, mapVars, cover, area,
                   class_coverage, CC_total_port, snow_cover_outline, TSLrange,
                   result_dataset, panel>>

\* The evaluation of the current unit is set aside.
Suspend ==
    /\ current # 0
    /\ pc \in {"illuminated", "classified", "analysed"}
    /\ units' = [units EXCEPT ![current] =
                    [status |-> "suspended", saved |-> unitVars]]
    /\ current' = 0
    /\ Idle
    /\ UNCHANGED <<collection, day, sceneList, TSLs, glacierVars, mapVars>>

\* Mutation of Resume: SENSOR is not part of the state of the unit.
Resume_shared_sensor(i) ==
    /\ current = 0
    /\ i \in DOMAIN units
    /\ units[i].status = "suspended"
    /\ LET u == units[i].saved
       IN  /\ pc' = u[1]
           /\ properties' = u[2]
           /\ SENSOR' = SENSOR
           /\ image' = u[4]
           /\ mask' = u[5]
           /\ cover' = u[6]
           /\ area' = u[7]
           /\ class_coverage' = u[8]
           /\ CC_total_port' = u[9]
           /\ snow_cover_outline' = u[10]
           /\ TSLrange' = u[11]
           /\ result_dataset' = u[12]
           /\ panel' = u[13]
    /\ current' = i
    /\ units' = [units EXCEPT ![i] = [status |-> "running", saved |-> <<>>]]
    /\ UNCHANGED <<collection, day, sceneList, TSLs, glacierVars, mapVars>>

\* The evaluation of unit i is taken up where it was set aside.
Resume(i) ==
    /\ current = 0
    /\ i \in DOMAIN units
    /\ units[i].status = "suspended"
    /\ LET u == units[i].saved
       IN  /\ pc' = u[1]
           /\ properties' = u[2]
           /\ SENSOR' = u[3]
           /\ image' = u[4]
           /\ mask' = u[5]
           /\ cover' = u[6]
           /\ area' = u[7]
           /\ class_coverage' = u[8]
           /\ CC_total_port' = u[9]
           /\ snow_cover_outline' = u[10]
           /\ TSLrange' = u[11]
           /\ result_dataset' = u[12]
           /\ panel' = u[13]
    /\ current' = i
    /\ units' = [units EXCEPT ![i] = [status |-> "running", saved |-> <<>>]]
    /\ UNCHANGED <<collection, day, sceneList, TSLs, glacierVars, mapVars>>

\* return result_dataset; TSL_dataset.flatten(): the result joins TSLs.
CollectResult ==
    /\ current # 0
    /\ pc = "emitted"
    /\ TSLs' = Append(TSLs, result_dataset)
    /\ units' = [units EXCEPT ![current].status = "done"]
    /\ current' = 0
    /\ Idle
    /\ UNCHANGED <<collection, day, sceneList, glacierVars, mapVars>>

NextBatch ==
    \/ DayList
    \/ \E i \in DOMAIN units : StartUnit(i)
    \/ Suspend
    \/ \E i \in DOMAIN units : Resume(i)
    \/ CalculateIllumination
    \/ ClassifySurface
    \/ SnowlineStatistics
    \/ EmitResult
    \/ CollectResult

\* A Landsat 8 scene with a snow pixel, under a sun that lights the glacier,
\* and a Landsat 7 scene under a low sun that leaves it in the shadow, with
\* a pixel that is snow by the Landsat 7 row and unclassified by the
\* Landsat 8 row.
CatalogueScenes ==
    <<[LANDSAT_PRODUCT_ID |-> "LC08_A", SPACECRAFT_ID |-> "LANDSAT_8",
       SUN_AZIMUTH |-> 150, SUN_ELEVATION |-> 45, illumination |-> <<36>>,
       image |-> <<Pixel(-80, -20, 10, 270, 36)>>],
      [LANDSAT_PRODUCT_ID |-> "LE07_B", SPACECRAFT_ID |-> "LANDSAT_7",
       SUN_AZIMUTH |-> 160, SUN_ELEVATION |-> 20, illumination |-> <<35>>,
       image |-> <<Pixel(-80, -10, 10, 270, 35)>>]>>

\* The scenes of one day: none, one, or two in either order.
DayScenes == {<<>>, <<1>>, <<1, 2>>, <<2, 1>>}

\* The scenes k of day d, with their acquisition date.
Acquired(k, d) ==
    [i \in DOMAIN k |-> [DATE_ACQUIRED |-> d] @@ CatalogueScenes[k[i]]]

InitBatch ==
    /\ \E k \in [range -> DayScenes] :
          collection = [d \in range |-> Acquired(k[d], d)]
    /\ day = 0
    /\ sceneList = <<>>
    /\ current = 0
    /\ units = <<>>
    /\ TSLs = <<>>
    /\ alos_DEM = <<1>>
    /\ cells = <<1>>
    /\ glacier_area = 1
    /\ layers = <<>>
    /\ last_scene_displayed = null
    /\ pc = "idle"
    /\ properties = <<>>
    /\ SENSOR = ""
    /\ image = <<>>
    /\ mask = {}
    /\ cover = None
    /\ area = None
    /\ class_coverage = None
    /\ CC_total_port = None
    /\ snow_cover_outline = None
    /\ TSLrange = None
    /\ result_dataset = None
    /\ panel = None

SpecBatch == InitBatch /\ [][NextBatch]_vars

(***************************************************************************)
(* evaluate.js: the scenes of the glacier are offered in a select box, and *)
(* every selection runs the processing chain and shows its layers.         *)
(***************************************************************************)

\* Number of scene selections of a session.
MaxSelections == 3

RECURSIVE iterate_day_list(_)
\* range.iterate(day_list, ee.List([])) over the first n days of the range.
iterate_day_list(n) ==
    IF n = 0 THEN <<>> ELSE day_list(n, iterate_day_list(n - 1))

\* The number of selections that have been displayed: each one has added
\* a layer 'RGI outline'.
Displayed == Cardinality({i \in DOMAIN layers : layers[i] = <<"RGI outline">>})

\* imageSelect.onChange(value): the scene of the day is built, the layers of
\* the scene displayed last are removed, and the processing chain starts.
SelectScene(value) ==
    /\ pc \in {"idle", "displayed"}
    /\ Displayed < MaxSelections
    /\ \E i \in DOMAIN sceneList : sceneList[i] = value
    /\ LET selected_scene == get_day_images(value)
       IN  /\ image' = selected_scene.image
           /\ properties' = selected_scene.properties
           /\ SENSOR' = selected_scene.SENSOR
           /\ mask' = DOMAIN selected_scene.image
    /\ layers' = cleanup_map(layers, last_scene_displayed)
    /\ last_scene_displayed' = value
    /\ pc' = "scene"
    /\ cover' = None
    /\ area' = None
    /\ class_coverage' = None
    /\ CC_total_port' = None
    /\ snow_cover_outline' = None
    /\ TSLrange' = None
    /\ UNCHANGED <<batchVars, glacierVars, result_dataset, panel>>

NextEvaluate ==
    \/ \E value \in range : SelectScene(value)
    \/ CalculateIllumination
    \/ ClassifySurface
    \/ SnowlineStatistics
    \/ UpdatePanel

InitEvaluate ==
    /\ \E k \in [range -> DayScenes] :
          collection = [d \in range |-> Acquired(k[d], d)]
    /\ day = NDays
    /\ sceneList = iterate_day_list(NDays)
    /\ current = 0
    /\ units = <<>>
    /\ TSLs = <<>>
    /\ alos_DEM = <<1>>
    /\ cells = <<1>>
    /\ glacier_area = 1
    /\ layers = <<>>
    /\ last_scene_displayed = null
    /\ pc = "idle"
    /\ properties = <<>>
    /\ SENSOR = ""
    /\ image = <<>>
    /\ mask = {}
    /\ cover = None
    /\ area = None
    /\ class_coverage = None
    /\ CC_total_port = None
    /\ snow_cover_outline = None
    /\ TSLrange = None
    /\ result_dataset = None
    /\ panel = None

SpecEvaluate == InitEvaluate /\ [][NextEvaluate]_vars

(***************************************************************************)
(* Properties                                                              *)
(***************************************************************************)

\* The rasters and areas of the unit have been computed.
Classified == pc \in {"classified", "analysed", "emitted", "displayed"}

\* The snowline statistics and the snowline band have been computed.
Analysed == pc \in {"analysed", "emitted", "displayed"}

\* The pixels of the cloud/unknown class.
CloudPixels == boolraster_to_outline(cover.cloud_cover)

\* Equality of two rationals.
RatEq(a, b) == a[1] * b[2] = b[1] * a[2]

\* class_coverage is below the cloud-free threshold.
BelowThreshold == class_coverage.num < cf_threshold * class_coverage.den

\* The five snowline statistics of the snow outline.
SnowStats ==
    {snow_cover_outline.STATS_MEAN, snow_cover_outline.STATS_MEDIAN,
     snow_cover_outline.STATS_MIN, snow_cover_outline.STATS_MAX,
     snow_cover_outline.STATS_STDEV}

\* C1 (as claimed): a unit whose class_coverage is below cf_threshold emits
\* status 0 and the NaN sentinel in all five snowline statistics, whatever
\* its snow area.
C1_SentinelBelowThreshold ==
    (pc = "emitted" /\ BelowThreshold) =>
        /\ TSLrange.status = 0
        /\ \A x \in {result_dataset.SC_mean, result_dataset.SC_median,
                     result_dataset.SC_min, result_dataset.SC_max,
                     result_dataset.SC_stdev} : IsEqualNaN(x)

\* C2 (as claimed): the class_coverage of every emitted result is at most 100.
C2_CoverageAtMost100 ==
    pc = "emitted" =>
        result_dataset.class_coverage.num <= 100 * result_dataset.class_coverage.den

\* Some band ratio of px is exactly one of the six bounds of the row th.
OnBound(px, th) ==
    \/ RatEq(px.ndsi, th[1]) \/ RatEq(px.ndsi, th[2])
    \/ RatEq(px.ratio_1, th[3]) \/ RatEq(px.ratio_1, th[4])
    \/ RatEq(px.ratio_2, th[5]) \/ RatEq(px.ratio_2, th[6])

\* C3: for every sensor and each of Snow, Ice, Debris, a pixel with a band
\* ratio exactly on a bound of the class's threshold row is not in the class.
C3_BoundaryExcluded ==
    Classified =>
        \A p \in mask :
            /\ OnBound(image[p], snow_thresholds(SENSOR)) => cover.snow_cover[p] = 0
            /\ OnBound(image[p], ice_thresholds(SENSOR)) => cover.ice_cover[p] = 0
            /\ OnBound(image[p], debris_thresholds(SENSOR)) => cover.debris_cover[p] = 0

\* C3 witness: a LANDSAT_8 pixel with NDSI and Ratio2 inside the snow row and
\* Ratio1 exactly on Ratio1_max has been classified, and is not snow.
C3_Witness ==
    /\ Classified
    /\ SENSOR = "LANDSAT_8"
    /\ 1 \in mask
    /\ image[1].ndsi = Dec(-61)
    /\ image[1].ratio_1 = th_snow_l8[4]
    /\ image[1].ratio_2 = Dec(-14)
    /\ cover.snow_cover[1] = 0

\* C4: for every sensor and band-ratio triple, no pixel is both Debris and Ice.
C4_DebrisIceExclusive ==
    Classified =>
        \A p \in mask : ~(cover.debris_cover[p] = 1 /\ cover.ice_cover[p] = 1)

\* C4 witness: both classes occur; a LANDSAT_7 pixel is Debris and not Ice.
C4_Witness ==
    /\ Classified
    /\ SENSOR = "LANDSAT_7"
    /\ 1 \in mask
    /\ cover.debris_cover[1] = 1
    /\ cover.ice_cover[1] = 0

\* C5: for every sensor and band-ratio triple, no pixel is both Snow and Ice,
\* and no pixel is both Snow and Debris.
C5_SnowExclusive ==
    Classified =>
        \A p \in mask :
            /\ ~(cover.snow_cover[p] = 1 /\ cover.ice_cover[p] = 1)
            /\ ~(cover.snow_cover[p] = 1 /\ cover.debris_cover[p] = 1)

\* C5 witness: a LANDSAT_8 pixel with NDSI below -0.6, Ratio1 inside both the
\* snow and the ice row and Ratio2 next to the shared bound -0.15 is Snow
\* and not Ice.
C5_Witness ==
    /\ Classified
    /\ SENSOR = "LANDSAT_8"
    /\ 1 \in mask
    /\ image[1].ndsi = Dec(-61)
    /\ image[1].ratio_1 = Dec(-39)
    /\ image[1].ratio_2 = Dec(-14)
    /\ cover.snow_cover[1] = 1
    /\ cover.ice_cover[1] = 0

\* The number of the four classes the unmasked pixel p belongs to.
ClassCount(p) ==
    (IF cover.snow_cover[p] = 1 THEN 1 ELSE 0)
    + (IF cover.ice_cover[p] = 1 THEN 1 ELSE 0)
    + (IF cover.debris_cover[p] = 1 THEN 1 ELSE 0)
    + (IF p \in CloudPixels THEN 1 ELSE 0)

\* C6: after the cloud/unknown class is resolved, every unmasked pixel is in
\* exactly one of Snow, Ice, Debris, Cloud/Unknown, and Cloud/Unknown is
\* exactly the set of unmasked pixels that satisfy none of the three
\* class predicates.
C6_FourClassPartition ==
    Classified =>
        /\ \A p \in mask : ClassCount(p) = 1
        /\ CloudPixels =
              {p \in mask :
                  /\ snow_identification(SENSOR, image[p]) = 0
                  /\ ice_identification(SENSOR, image[p]) = 0
                  /\ debris_identification(SENSOR, image[p]) = 0}

\* C6 witness: a lit LANDSAT_8 pixel exactly on the bound Ratio2 = -0.15
\* that Snow and Ice share has been resolved to Cloud/Unknown.
C6_Witness ==
    /\ Classified
    /\ SENSOR = "LANDSAT_8"
    /\ 1 \in mask
    /\ image[1].ndsi = Dec(-61)
    /\ image[1].ratio_1 = Dec(-39)
    /\ image[1].ratio_2 = Dec(-15)
    /\ 1 \in CloudPixels

\* The sensor identifiers that have a threshold row.
SensorsWithRow ==
    {"LANDSAT_1", "LANDSAT_2", "LANDSAT_3", "LANDSAT_4", "LANDSAT_5",
     "LANDSAT_7", "LANDSAT_8"}

\* The row [99, 99, 99, 99, 99, 99].
VacuousRow == <<Dec(9900), Dec(9900), Dec(9900), Dec(9900), Dec(9900), Dec(9900)>>

\* C7: for a sensor without a threshold row the vacuous row is used for
\* Snow, Ice and Debris, the three rasters are 0 at every unmasked pixel and
\* every unmasked pixel is Cloud/Unknown.
C7_UnknownSensor ==
    (Classified /\ SENSOR \notin SensorsWithRow) =>
        /\ snow_thresholds(SENSOR) = VacuousRow
        /\ ice_thresholds(SENSOR) = VacuousRow
        /\ debris_thresholds(SENSOR) = VacuousRow
        /\ \A p \in mask :
              /\ cover.snow_cover[p] = 0
              /\ cover.ice_cover[p] = 0
              /\ cover.debris_cover[p] = 0
              /\ p \in CloudPixels

\* C7 witness: a LANDSAT_6 unit, whose lit pixel would be Snow for
\* LANDSAT_8, has run to its result with the pixel in Cloud/Unknown.
C7_Witness ==
    /\ pc = "emitted"
    /\ SENSOR = "LANDSAT_6"
    /\ 1 \in mask
    /\ snow_identification("LANDSAT_8", image[1]) = 1
    /\ 1 \in CloudPixels

\* C8: a unit without snow area has the NaN sentinel in all five snowline
\* statistics and snowline band status 0.
C8_NoSnowSentinel ==
    (Analysed /\ area.SC_area = 0) =>
        /\ \A x \in SnowStats : IsEqualNaN(x)
        /\ TSLrange.status = 0

\* C8 witness: a unit with ice area and without snow area has been analysed.
C8_Witness ==
    /\ Analysed
    /\ area.SC_area = 0
    /\ area.IC_area > 0

\* The unit passed both gates: coverage not below the threshold, snow present.
PassedGates == Analysed /\ ~BelowThreshold /\ area.SC_area > 0

\* C9 (as claimed): a unit that passed both gates has status 1, for every
\* computed mean and standard deviation.
C9_EstimatedStatus1 == PassedGates => TSLrange.status = 1

\* C9 (amended): a unit that passed both gates has status 1 exactly when the
\* computed standard deviation and the computed mean are both greater
\* than 0, and status 0 otherwise.
C9_StatusIffPositive ==
    PassedGates =>
        /\ TSLrange.status \in {0, 1}
        /\ TSLrange.status = 1 <=>
              /\ snow_cover_outline.STATS_STDEV.sq > 0
              /\ snow_cover_outline.STATS_MEAN.num > 0

\* C9 witness: a unit that passed both gates has status 1.
C9_Witness == PassedGates /\ TSLrange.status = 1

\* The common factor of the denominators of the recorded mean and stdev.
StatsGCD ==
    GCD(snow_cover_outline.STATS_MEAN.den, snow_cover_outline.STATS_STDEV.den)

\* (e - mean) times the least common denominator of mean and stdev: the
\* deviation of elevation e from the mean on the scale on which the standard
\* deviation is (mean.den / StatsGCD) * sqrt(sq).
Deviation(e) ==
    (e * snow_cover_outline.STATS_MEAN.den - snow_cover_outline.STATS_MEAN.num)
        * (snow_cover_outline.STATS_STDEV.den \div StatsGCD)

\* The square of the standard deviation on the scale of Deviation.
StdevSquared ==
    (snow_cover_outline.STATS_MEAN.den \div StatsGCD)
        * (snow_cover_outline.STATS_MEAN.den \div StatsGCD)
        * snow_cover_outline.STATS_STDEV.sq

\* mean - stdev <= e <= mean + stdev
InClosedBand(e) == Deviation(e) * Deviation(e) <= StdevSquared

\* e = mean - stdev
OnLowerEnd(e) == Deviation(e) <= 0 /\ Deviation(e) * Deviation(e) = StdevSquared

\* C10 (as claimed): the snowline band is the set of glacier DEM pixels with
\* mean - stdev <= e <= mean + stdev.
C10_ClosedBand ==
    (Analysed /\ TSLrange.status = 1) =>
        TSLrange.outline = {p \in DOMAIN alos_DEM : InClosedBand(alos_DEM[p])}

\* C10 (amended): the snowline band is the set of glacier DEM pixels with
\* mean - stdev < e <= mean + stdev; a pixel at exactly mean - stdev is
\* outside the band.
C10_HalfOpenBand ==
    (Analysed /\ TSLrange.status = 1) =>
        TSLrange.outline =
            {p \in DOMAIN alos_DEM :
                InClosedBand(alos_DEM[p]) /\ ~OnLowerEnd(alos_DEM[p])}

\* C10 witness: a band has been computed for a glacier with a pixel exactly
\* at mean - stdev, which is outside, and one at mean + stdev, which is inside.
C10_Witness ==
    /\ Analysed
    /\ TSLrange.status = 1
    /\ \E p \in DOMAIN alos_DEM :
          OnLowerEnd(alos_DEM[p]) /\ p \notin TSLrange.outline
    /\ \E p \in DOMAIN alos_DEM :
          /\ Deviation(alos_DEM[p]) > 0
          /\ Deviation(alos_DEM[p]) * Deviation(alos_DEM[p]) = StdevSquared
          /\ p \in TSLrange.outline

\* The snowline band outline has zero area.
BandHasZeroArea == Analysed /\ outline_area(TSLrange.outline) = 0

EmptyBandWithStatus1 == Analysed /\ TSLrange.status = 1 /\ TSLrange.outline = {}

\* C12 (as claimed): a percent metric with a zero denominator is NaN, never
\* a number: CC_total_port when TCC_area = 0 and cc_TSLrange_percent when
\* DEM_TSLrange_area = 0.
C12_ZeroDenominatorNaN ==
    /\ (Classified /\ area.TCC_area = 0) => CC_total_port.nan
    /\ (Analysed /\ TSLrange.DEM_TSLrange_area = Num(0, 1)) =>
           TSLrange.cc_TSLrange_percent.nan

\* The pixels inside the snow outline.
SnowOutline == {p \in DOMAIN cover.snow_cover : cover.snow_cover[p] = 1}

\* Number of cells of the pixels of S with elevation below v, and up to v.
CellsBelow(S, v) == SumF(cells, {p \in S : alos_DEM[p] < v})
CellsAtOrBelow(S, v) == SumF(cells, {p \in S : alos_DEM[p] <= v})

\* v is the q-th percentile of the elevations of S: at least q percent of the
\* cells are at or below v, and fewer than q percent are below v.
IsPercentile(S, q, v) ==
    /\ v \in {alos_DEM[p] : p \in S}
    /\ 100 * CellsAtOrBelow(S, v) >= q * SumF(cells, S)
    /\ 100 * CellsBelow(S, v) < q * SumF(cells, S)

\* The statistics recorded in snow_cover_outline are those of the pixels L.
StatsAreOver(L) ==
    LET n  == SumF(cells, L)
        s1 == SumF([p \in L |-> cells[p] * alos_DEM[p]], L)
        s2 == SumF([p \in L |-> cells[p] * alos_DEM[p] * alos_DEM[p]], L)
    IN  /\ snow_cover_outline.STATS_MEAN.num * n
              = s1 * snow_cover_outline.STATS_MEAN.den
        /\ snow_cover_outline.STATS_STDEV.den = n
        /\ snow_cover_outline.STATS_STDEV.sq = n * s2 - s1 * s1
        /\ \E p \in L : snow_cover_outline.STATS_MIN = Num(alos_DEM[p], 1)
        /\ \A p \in L : snow_cover_outline.STATS_MIN.num <= alos_DEM[p]
        /\ \E p \in L : snow_cover_outline.STATS_MAX = Num(alos_DEM[p], 1)
        /\ \A p \in L : snow_cover_outline.STATS_MAX.num >= alos_DEM[p]
        /\ snow_cover_outline.STATS_MEDIAN.den = 1
        /\ IsPercentile(L, 50, snow_cover_outline.STATS_MEDIAN.num)

\* C13: when SC_area > 0, the five snowline statistics are those of the
\* DEM pixels inside the snow outline with elevation <= e_P, the
\* tsl_median_binsize-th percentile of the DEM inside the snow outline.
C13_StatsOverLowestPercentile ==
    (Analysed /\ area.SC_area > 0) =>
        \E e_P \in {alos_DEM[p] : p \in SnowOutline} :
            /\ IsPercentile(SnowOutline, tsl_median_binsize, e_P)
            /\ StatsAreOver({p \in SnowOutline : alos_DEM[p] <= e_P})

\* C13 witness: statistics were computed while snow above e_P and a lower
\* pixel outside the snow outline did not contribute.
C13_Witness ==
    /\ Analysed
    /\ area.SC_area > 0
    /\ \E p \in SnowOutline : alos_DEM[p] > snow_cover_outline.STATS_MAX.num
    /\ \E p \in DOMAIN alos_DEM \ SnowOutline :
           alos_DEM[p] < snow_cover_outline.STATS_MIN.num

\* Pixel p of the scene is shadowed or has a non-positive thermal band.
Shadowed(p) == image[p].IL <= il_threshold \/ image[p].T <= 0

\* Pixel p is a member of the class with raster r.
Member(r, p) == p \in DOMAIN r /\ r[p] = 1

\* C14: the illumination/thermal mask is applied before the classifiers run:
\* no raster exists before the mask, the classifiers read masked pixels
\* only, and a shadowed pixel is never a member of Snow, Ice or Debris.
C14_MaskBeforeClassifiers ==
    /\ pc = "scene" => cover = None
    /\ Classified =>
          /\ DOMAIN cover.snow_cover \subseteq mask
          /\ DOMAIN cover.ice_cover \subseteq mask
          /\ DOMAIN cover.debris_cover \subseteq mask
          /\ \A p \in DOMAIN image :
                Shadowed(p) =>
                    /\ ~Member(cover.snow_cover, p)
                    /\ ~Member(cover.ice_cover, p)
                    /\ ~Member(cover.debris_cover, p)

\* C14 witness: a classified scene with a shadowed pixel whose band ratios
\* are those of snow, next to a lit pixel that is snow.
C14_Witness ==
    /\ Classified
    /\ \E p \in DOMAIN image :
          Shadowed(p) /\ snow_identification(SENSOR, image[p]) = 1
    /\ \E p \in DOMAIN image : Member(cover.snow_cover, p)

\* C15: calculate_illumination keeps a pixel if and only if its
\* illumination is greater than 0.35 and its thermal band is greater than 0.
C15_KeptIffLitAndWarm ==
    pc # "scene" =>
        mask = {p \in DOMAIN image : image[p].IL > 35 /\ image[p].T > 0}

\* C15 witness: the mask has removed a pixel with illumination exactly 0.35
\* and a pixel with thermal band 0, each passing the other test.
C15_Witness ==
    /\ pc # "scene"
    /\ \E p \in DOMAIN image \ mask : image[p].IL = 35 /\ image[p].T > 0
    /\ \E p \in DOMAIN image \ mask : image[p].IL > 35 /\ image[p].T = 0

\* One of the three denominators of get_band_ratios is zero at pixel px:
\* SWIR1 + G, T_norm + G + NIR or G + T_norm.
ZeroDenominator(px) ==
    \/ px.SWIR1 + px.G = 0
    \/ bt_corr(px.T) + 70 * (px.G + px.NIR) = 0
    \/ 70 * px.G + bt_corr(px.T) = 0

\* C16 (as claimed): a valid pixel with a zero denominator in NDSI, Ratio1
\* or Ratio2 is a member of none of Snow, Ice, Debris for every sensor and
\* is counted as Cloud/Unknown.
C16_ZeroDenominatorUnclassified ==
    Classified =>
        \A p \in mask :
            ZeroDenominator(image[p]) =>
                /\ ~Member(cover.snow_cover, p)
                /\ ~Member(cover.ice_cover, p)
                /\ ~Member(cover.debris_cover, p)
                /\ Member(cover.cloud_cover, p)

\* The value is the number 0.
IsZero(x) == x[1] = 0 /\ x[2] > 0

\* C17: for every band set with SWIR1 = G, also with G = 0, the NDSI that
\* get_band_ratios returns is exactly 0.
C17_EqualBandsNdsiZero ==
    \A p \in DOMAIN image :
        image[p].SWIR1 = image[p].G => IsZero(image[p].ndsi)

\* C17 witness: a classified pixel with SWIR1 = G = 0, and NDSI 0.
C17_Witness ==
    /\ Classified
    /\ \E p \in mask :
          /\ image[p].SWIR1 = 0
          /\ image[p].G = 0
          /\ IsZero(image[p].ndsi)

\* The dictionary carries RGIId, LS_ID and LS_DATE with the values they have
\* on the scene.
CarriesSceneAttributes(dict) ==
    \A k \in {"RGIId", "LS_ID", "LS_DATE"} :
        k \in DOMAIN dict /\ dict[k] = properties[k]

\* C20 (as claimed): RGIId, LS_ID and LS_DATE of the scene appear unchanged
\* on each classified raster, on the vector outline derived from it, on the
\* statistics feature derived from the outline and on the emitted result.
C20_AttributesCarried ==
    /\ Classified =>
          /\ CarriesSceneAttributes(cover.class_properties)
          /\ CarriesSceneAttributes(outline_properties(cover.class_properties))
    /\ Analysed => CarriesSceneAttributes(snow_cover_outline)
    /\ pc = "emitted" => CarriesSceneAttributes(result_dataset)

\* The number of results in TSLs for day d.
ResultsOn(d) == Cardinality({i \in DOMAIN TSLs : TSLs[i].LS_DATE = d})

\* Every day of the range has been visited and every unit has been evaluated.
BatchDone ==
    /\ day = NDays
    /\ current = 0
    /\ \A i \in DOMAIN units : units[i].status = "done"

\* C18: the batch emits exactly one result for every day of the range with
\* at least one scene, also when several scenes share the day, and none for
\* a day without a scene; a day without a scene does not stop the batch.
C18_OneResultPerDayWithScene ==
    /\ \A d \in range :
          /\ ResultsOn(d) <= 1
          /\ Len(collection[d]) = 0 => ResultsOn(d) = 0
          /\ (BatchDone /\ Len(collection[d]) > 0) => ResultsOn(d) = 1
    /\ BatchDone \/ ENABLED NextBatch

\* C18 witness: the batch is done for a range with a day without a scene
\* between a day with one scene and a day with two scenes.
C18_Witness ==
    /\ BatchDone
    /\ Len(collection[1]) = 1
    /\ Len(collection[2]) = 0
    /\ Len(collection[3]) = 2
    /\ ResultsOn(1) = 1
    /\ ResultsOn(3) = 1

\* The result of the unit of day d, evaluated on its own from the scenes of
\* the day and the DEM of the glacier.
UnitResult(d) ==
    LET ls_scene == get_day_images(d)
        msk == calculate_illumination(ls_scene.image)
        cov == classify(ls_scene.properties, ls_scene.SENSOR, ls_scene.image, msk)
        ar  == measure(cov)
        sco == snow_stats(cov, ar)
        tsl == TSL_range(sco, cov)
    IN  [LS_DATE             |-> d,
         LS_SAT              |-> ls_scene.SENSOR,
         SC_area             |-> ar.SC_area,
         IC_area             |-> ar.IC_area,
         DC_area             |-> ar.DC_area,
         CC_area             |-> ar.CC_area,
         SC_mean             |-> sco.STATS_MEAN,
         SC_stdev            |-> sco.STATS_STDEV,
         cc_TSLrange_percent |-> tsl.cc_TSLrange_percent,
         class_coverage      |-> Percent(ar.TCC_area, glacier_area)]

\* C19: every result is the result of its unit evaluated on its own,
\* whatever the order and the interleaving of the units, and the results
\* of a finished batch are those of the days with a scene.
C19_UnitsIndependent ==
    /\ \A i \in DOMAIN TSLs :
          LET own == UnitResult(TSLs[i].LS_DATE)
          IN  \A k \in DOMAIN own : TSLs[i][k] = own[k]
    /\ BatchDone =>
          {TSLs[i].LS_DATE : i \in DOMAIN TSLs}
              = {d \in range : Len(collection[d]) > 0}

\* C19 witness: the later of two units of different sensors was set aside
\* while classified, and its result arrived first.
C19_Witness ==
    /\ Len(TSLs) = 1
    /\ Len(sceneList) = 2
    /\ TSLs[1].LS_DATE = sceneList[2]
    /\ units[1].status = "suspended"
    /\ units[1].saved[1] = "classified"
    /\ units[1].saved[3] # TSLs[1].LS_SAT

\* The unmasked pixels that satisfy the Ice predicate of the sensor.
IcePixels == {p \in mask : ice_identification(SENSOR, image[p]) = 1}

\* The scene of scenario 2: the glacier area equals the area of the valid
\* pixels, 30% of it satisfies the Ice predicate and the rest satisfies no
\* class predicate.
ThirtyPercentIce ==
    /\ Classified
    /\ glacier_area = outline_area(mask)
    /\ 10 * outline_area(IcePixels) = 3 * outline_area(mask)
    /\ \A p \in mask \ IcePixels :
          /\ snow_identification(SENSOR, image[p]) = 0
          /\ ice_identification(SENSOR, image[p]) = 0
          /\ debris_identification(SENSOR, image[p]) = 0

\* C21 (as claimed): in the 30% ice scene class_coverage is 30, the snow
\* statistics are the sentinel and IC_area is positive.
C21_MixedSceneCoverage30 ==
    ThirtyPercentIce =>
        /\ class_coverage.num = 30 * class_coverage.den
        /\ area.IC_area > 0
        /\ Analysed => \A x \in SnowStats : IsEqualNaN(x)

\* C21 (amended): in the 30% ice scene class_coverage is 100, because the
\* pixels of no class are Cloud/Unknown and count as classified; IC_area is
\* 30% of the classified area and positive, SC_area is 0, and the snow
\* statistics are the sentinel with status 0.
C21_MixedSceneCoverage100 ==
    ThirtyPercentIce =>
        /\ class_coverage.num = 100 * class_coverage.den
        /\ area.IC_area > 0
        /\ 10 * area.IC_area = 3 * area.TCC_area
        /\ 10 * area.CC_area = 7 * area.TCC_area
        /\ area.SC_area = 0
        /\ Analysed =>
              /\ \A x \in SnowStats : IsEqualNaN(x)
              /\ TSLrange.status = 0

\* C21 witness: the 30% ice scene has run to its result.
C21_Witness ==
    /\ ThirtyPercentIce
    /\ pc = "emitted"
    /\ result_dataset.IC_area = 3
    /\ result_dataset.CC_area = 7

\* Every valid pixel of the scene has NDSI -0.8, Ratio1 -0.2, Ratio2 0.1.
UniformSnowScene ==
    /\ SENSOR = "LANDSAT_8"
    /\ \A p \in mask :
          /\ image[p].ndsi = Dec(-80)
          /\ image[p].ratio_1 = Dec(-20)
          /\ image[p].ratio_2 = Dec(10)

\* C22: in a LANDSAT_8 scene whose every valid pixel has NDSI -0.8,
\* Ratio1 -0.2 and Ratio2 0.1, every pixel is Snow and none is Ice, Debris
\* or Cloud/Unknown; the snow area is the total classified area and the ice
\* and debris areas are 0.
C22_UniformSceneAllSnow ==
    (Classified /\ UniformSnowScene) =>
        /\ \A p \in mask :
              /\ cover.snow_cover[p] = 1
              /\ cover.ice_cover[p] = 0
              /\ cover.debris_cover[p] = 0
              /\ p \notin CloudPixels
        /\ area.SC_area = area.TCC_area
        /\ area.IC_area = 0
        /\ area.DC_area = 0

\* C22 witness: a uniform scene with every pixel valid has been classified.
C22_Witness ==
    /\ Classified
    /\ UniformSnowScene
    /\ mask = DOMAIN image
    /\ area.SC_area = outline_area(DOMAIN image)

\* The larger of two integers.
Max(a, b) == IF a >= b THEN a ELSE b

\* (max(T, 263.15) - 230) / 70, times 7000.
T_norm(T) == Max(T, T_threshold) - 23000

\* C23: for every thermal value T the freeze-guarded temperature of
\* get_band_ratios equals max(T, 263.15), also at T = 263.15 exactly, and
\* Ratio1 and Ratio2 are computed from (max(T, 263.15) - 230) / 70.
C23_FreezeGuardIsMax ==
    \A p \in DOMAIN image :
        LET px == image[p]
            gn == 70 * (px.G + px.NIR)
            g  == 70 * px.G
        IN  /\ bt_corr(px.T) = T_norm(px.T)
            /\ T_norm(px.T) + gn # 0 =>
                   RatEq(px.ratio_1, <<T_norm(px.T) - gn, T_norm(px.T) + gn>>)
            /\ g + T_norm(px.T) # 0 =>
                   RatEq(px.ratio_2, <<g - T_norm(px.T), g + T_norm(px.T)>>)

\* C23 witness: a pixel at exactly 263.15 K has been through
\* get_band_ratios and the classifiers, with Ratio1 and Ratio2 computed
\* from (263.15 - 230) / 70.
C23_Witness ==
    /\ Classified
    /\ \E p \in mask :
          /\ image[p].T = T_threshold
          /\ image[p].G = 20
          /\ image[p].NIR = 40
          /\ image[p].ratio_1 = <<3315 - 4200, 3315 + 4200>>
          /\ image[p].ratio_2 = <<1400 - 3315, 1400 + 3315>>

\* The value of the cloud/unknown raster at the unmasked pixel p, 0 where
\* the raster is masked.
CloudValue(p) == IF p \in CloudPixels THEN 1 ELSE 0

\* C24: for every sensor and every band-ratio triple, at every valid pixel
\* debris + ice is 0 or 1, detected_areas is 0 or 1 and detected_areas +
\* cloud_cover is exactly 1; the zone of total_class_coverage that
\* boolraster_to_outline extracts is the whole set of valid pixels, and
\* class_coverage is the area of the valid pixels over the glacier area,
\* whatever the sensor and the classes.
C24_AdditiveSumsBoolean ==
    Classified =>
        /\ \A p \in mask :
              /\ cover.debris_plus_ice[p] \in {0, 1}
              /\ cover.detected_areas[p] \in {0, 1}
              /\ cover.detected_areas[p] + CloudValue(p) = 1
        /\ boolraster_to_outline(cover.total_class_coverage) = mask
        /\ class_coverage = Percent(outline_area(mask), glacier_area)

\* C24 witness: a LANDSAT_8 pixel with NDSI above -0.2 that is Debris, with
\* Ratio1 and Ratio2 inside both the debris and the ice row, is the covered
\* zone.
C24_Witness ==
    /\ Classified
    /\ SENSOR = "LANDSAT_8"
    /\ 1 \in mask
    /\ image[1].ratio_1 = Dec(1)
    /\ image[1].ratio_2 = Dec(-31)
    /\ cover.debris_cover[1] = 1
    /\ cover.debris_plus_ice[1] = 1
    /\ boolraster_to_outline(cover.total_class_coverage) = {1}

\* C25: for every scene the class areas add up: SC_area + IC_area + DC_area
\* + CC_area = TCC_area (the control sum equals TCC_area), and
\* DIC_area = IC_area + DC_area.
C25_ClassAreasAddUp ==
    Classified =>
        /\ TCC_area_ctrl(area) = area.TCC_area
        /\ area.DIC_area = area.IC_area + area.DC_area

\* C25 witness: a scene of an ice block and a debris block of different
\* sizes has been measured.
C25_Witness ==
    /\ Classified
    /\ area.IC_area > 0
    /\ area.DC_area > 0
    /\ area.IC_area # area.DC_area
    /\ area.DIC_area = 10

\* The percent value x is a number between 0 and 100.
InPercentRange(x) == ~x.nan /\ 0 <= x.num /\ x.num <= 100 * x.den

\* A snowline band has been drawn and has an area greater than 0.
BandDrawn ==
    /\ Analysed
    /\ TSLrange.status = 1
    /\ TSLrange.DEM_TSLrange_area.num > 0

\* C26: whenever the snowline band status is 1 and the band area is
\* greater than 0, cc_TSLrange_percent and tcc_TSLrange_percent lie in
\* [0, 100].
C26_BandPortionsInRange ==
    BandDrawn =>
        /\ InPercentRange(TSLrange.cc_TSLrange_percent)
        /\ InPercentRange(TSLrange.tcc_TSLrange_percent)

\* C26 witness: a band that holds cloud/unknown cells and snow cells, so
\* that the portion of cloud in the band is strictly between 0 and 100.
C26_Witness ==
    /\ BandDrawn
    /\ TSLrange.cc_TSLrange_percent.num > 0
    /\ TSLrange.cc_TSLrange_percent.num < 100 * TSLrange.cc_TSLrange_percent.den
    /\ TSLrange.tcc_TSLrange_percent.num = 100 * TSLrange.tcc_TSLrange_percent.den

\* C27: whenever SC_area > 0, the masked subset used for the statistics is
\* not empty, STATS_MIN <= STATS_MEDIAN <= STATS_MAX <= e_P,
\* STATS_MIN <= STATS_MEAN <= STATS_MAX and STATS_STDEV >= 0.
C27_StatsOrdered ==
    (Analysed /\ area.SC_area > 0) =>
        LET sco == snow_cover_outline
        IN  /\ masked_DEM(SnowOutline) # {}
            /\ \A x \in SnowStats : ~x.nan
            /\ sco.STATS_MIN.num <= sco.STATS_MEDIAN.num
            /\ sco.STATS_MEDIAN.num <= sco.STATS_MAX.num
            /\ \E e_P \in {alos_DEM[p] : p \in SnowOutline} :
                  /\ IsPercentile(SnowOutline, tsl_median_binsize, e_P)
                  /\ sco.STATS_MAX.num <= e_P
            /\ sco.STATS_MIN.num * sco.STATS_MEAN.den <= sco.STATS_MEAN.num
            /\ sco.STATS_MEAN.num <= sco.STATS_MAX.num * sco.STATS_MEAN.den
            /\ sco.STATS_STDEV.sq >= 0
            /\ sco.STATS_STDEV.den > 0

\* C27 witness: statistics over cells of two elevations: the mean lies
\* strictly between the minimum and the maximum and the standard deviation
\* is positive.
C27_Witness ==
    /\ Analysed
    /\ area.SC_area > 0
    /\ snow_cover_outline.STATS_MIN.num * snow_cover_outline.STATS_MEAN.den
           < snow_cover_outline.STATS_MEAN.num
    /\ snow_cover_outline.STATS_MEAN.num
           < snow_cover_outline.STATS_MAX.num * snow_cover_outline.STATS_MEAN.den
    /\ snow_cover_outline.STATS_STDEV.sq > 0

\* The first scene of the day of the unit being evaluated.
FirstScene == collection[sceneList[current]][1]

\* C28: the unit of a date takes SENSOR, and so the threshold rows of all
\* its pixels, LS_ID, SUN_AZIMUTH and SUN_ELEVATION, and so its
\* illumination, from the first scene of the date, with one scene and with
\* several scenes on the date alike.
C28_PropertiesOfFirstScene ==
    /\ current # 0 =>
          /\ SENSOR = FirstScene.SPACECRAFT_ID
          /\ properties.LS_ID = FirstScene.LANDSAT_PRODUCT_ID
          /\ properties.SUN_AZIMUTH = FirstScene.SUN_AZIMUTH
          /\ properties.SUN_ELEVATION = FirstScene.SUN_ELEVATION
          /\ \A p \in DOMAIN image : image[p].IL = FirstScene.illumination[p]
          /\ Classified =>
                \A p \in mask :
                    /\ cover.snow_cover[p]
                          = snow_identification(FirstScene.SPACECRAFT_ID, image[p])
                    /\ cover.ice_cover[p]
                          = ice_identification(FirstScene.SPACECRAFT_ID, image[p])
                    /\ cover.debris_cover[p]
                          = debris_identification(FirstScene.SPACECRAFT_ID, image[p])
    /\ \A i \in DOMAIN TSLs :
          /\ TSLs[i].LS_SAT = collection[TSLs[i].LS_DATE][1].SPACECRAFT_ID
          /\ TSLs[i]["LS_ID: "] = collection[TSLs[i].LS_DATE][1].LANDSAT_PRODUCT_ID

\* C28 witness: on a date with a Landsat 8 scene followed by a Landsat 7
\* scene, the mosaic shows the pixel of the second scene, lit by the sun of
\* the first; the pixel is snow by the Landsat 7 row and has been resolved
\* to Cloud/Unknown by the Landsat 8 row.
C28_Witness ==
    /\ current # 0
    /\ Classified
    /\ Len(collection[sceneList[current]]) = 2
    /\ FirstScene.SPACECRAFT_ID = "LANDSAT_8"
    /\ SENSOR = "LANDSAT_8"
    /\ mask = {1}
    /\ image[1].ratio_1 = Dec(-10)
    /\ snow_identification("LANDSAT_7", image[1]) = 1
    /\ 1 \in CloudPixels

\* The seven kinds of layers that are named after a scene.
SceneLayerKinds ==
    {"LS ", "Snow cover raster ", "Ice cover raster ", "Cloud cover raster ",
     "Debris cover raster ", "CC TSL Range ", "Masked DEM "}

\* The positions of the layers of kind k on the map.
LayersOf(k) == {i \in DOMAIN layers : layers[i][1] = k}

\* A selection has been made and its processing chain has not reached the
\* map yet.
Processing == pc \in {"scene", "illuminated", "classified", "analysed"}

\* C29: in the evaluate tool, after any sequence of scene selections,
\* last_scene_displayed is the value selected last; of each of the seven
\* scene-named kinds the map holds at most one layer, named after the scene
\* selected last; the layers of the scene selected before are removed
\* before the new ones are added, also when a scene is selected twice in
\* a row.
C29_OneLayerPerKind ==
    /\ pc = "idle" => last_scene_displayed = null
    /\ pc # "idle" => last_scene_displayed = properties.LS_DATE
    /\ \A k \in SceneLayerKinds :
          /\ Cardinality(LayersOf(k)) <= 1
          /\ \A i \in LayersOf(k) : layers[i] = <<k, last_scene_displayed>>
          /\ Processing => LayersOf(k) = {}
          /\ pc = "displayed" => Cardinality(LayersOf(k)) = 1

\* C29 witness: the only scene of the glacier has been selected twice in
\* a row and is displayed, with one layer of each kind.
C29_Witness ==
    /\ pc = "displayed"
    /\ Len(sceneList) = 1
    /\ Displayed = 2
    /\ \A k \in SceneLayerKinds : Cardinality(LayersOf(k)) = 1

\* C30 (as claimed): every layer added by one selection is removed by the
\* next one: after any number of selections the map has as many layers as
\* after one selection.
C30_LayersDoNotGrow ==
    pc = "displayed" => Len(layers) = Len(add_layers(<<>>, last_scene_displayed))

====
